---- MODULE Spec2Model ----
(***************************************************************************)
(* ApaleoConnectAdaptor (src/src/lib/ApaleoConnectAdapter.ts): the adapter *)
(* constructor with its token-exchange closure, the authenticated request  *)
(* driver it extends (RestRequestDriver, imported from                     *)
(* @cord-travel/pms-connect and described by spec.md section 4.2), and the *)
(* list methods of the resource gateway.                                   *)
(***************************************************************************)
EXTENDS Integers, Sequences, FiniteSets, TLC

\* ------------------------------------------------------------- bounds
\* Number of execute calls (callers) on the one driver instance.
NumCalls == 2
\* Longest vendor list in a payload, and largest vendor-reported count.
MaxLen == 2
MaxCount == 3

Calls == 1..NumCalls

\* ------------------------------------------------------ JS values
\* null and undefined of the source, as strings no option value uses.
Null == "<null>"
Undefined == "<undefined>"

\* JS truthiness of a string | null | undefined value ( !v ).
Falsy(v) == v = Null \/ v = Undefined \/ v = ""

\* A destructuring default ( { x = d } = options ): applies to undefined only.
Default(v, d) == IF v = Undefined THEN d ELSE v

\* a || b
OrElse(a, b) == IF Falsy(a) THEN b ELSE a

\* The token pair standing for "no data" (null) from the token generator.
NullPair == [access_token |-> Null, refresh_token |-> Null]

\* { ...a, ...b }: b's keys win.
Merge(a, b) ==
  [k \in (DOMAIN a) \cup (DOMAIN b) |-> IF k \in DOMAIN b THEN b[k] ELSE a[k]]

Last(s) == s[Len(s)]

\* ------------------------------------------------------------- state
VARIABLES
  options,        \* the options the constructor was called with
  constructed,    \* "none" | "ok" | "failed" (the constructor threw)
  closure,        \* what the generteAccessToken closure captured
  tokenPair,      \* the driver's in-memory TokenPair
  tokenStore,     \* TRUE when a token store is attached
  stored,         \* the token store's contents
  saveLog,        \* the pairs TokenStore.save was invoked with
  calls,          \* each execute call's position and history
  inFlight,       \* number of token exchanges in flight
  exchangeLog,    \* every TokenAuthority exchange made, in order
  gw              \* the last resource-gateway call: its request and result

vars ==
  <<options, constructed, closure, tokenPair, tokenStore, stored, saveLog,
    calls, inFlight, exchangeLog, gw>>

driverVars ==
  <<options, constructed, closure, tokenPair, tokenStore, stored, saveLog,
    calls, inFlight, exchangeLog>>

\* ------------------------------------------------------- constructor
CredentialValues == {Undefined, Null, "", "client"}

OptionValues ==
  [client_id : CredentialValues,
   client_secret : CredentialValues,
   refresh_token : {"rt-1"},
   access_token : {Undefined, "at-0"},
   redirect_uri : {"https://cb"},
   tokenStore : BOOLEAN]

NoOptions ==
  [client_id |-> Undefined, client_secret |-> Undefined,
   refresh_token |-> Undefined, access_token |-> Undefined,
   redirect_uri |-> Undefined, tokenStore |-> FALSE]

\* const { client_id = null, client_secret = null, refresh_token = '',
\*         access_token, redirect_uri = '' } = options
Destructure(o) ==
  [client_id |-> Default(o.client_id, Null),
   client_secret |-> Default(o.client_secret, Null),
   refresh_token |-> Default(o.refresh_token, ""),
   access_token |-> o.access_token,
   redirect_uri |-> Default(o.redirect_uri, "")]

CredentialsMissing_OnlyId(client_id, client_secret) == Falsy(client_id)

\* if (!client_id || !client_secret) throw
CredentialsMissing(client_id, client_secret) ==
  Falsy(client_id) \/ Falsy(client_secret)

\* The options handed to super(): refreshToken and accessToken.
SuperOptions(d) ==
  [access_token |-> OrElse(d.access_token, ""),
   refresh_token |-> d.refresh_token]

IdleCall ==
  [pc |-> "idle", attempts |-> 0, bearer |-> "", lastResp |-> "none",
   round |-> 0, result |-> "none"]

NoGatewayCall ==
  [method |-> "none", id |-> "", params |-> [k \in {} |-> ""],
   requests |-> <<>>, response |-> [kind |-> "none"],
   result |-> [threw |-> "unset"]]

Init ==
  /\ options = NoOptions
  /\ constructed = "none"
  /\ closure = Destructure(NoOptions)
  /\ tokenPair = NullPair
  /\ tokenStore = FALSE
  /\ stored = NullPair
  /\ saveLog = <<>>
  /\ calls = [c \in Calls |-> IdleCall]
  /\ inFlight = 0
  /\ exchangeLog = <<>>
  /\ gw = NoGatewayCall

\* new ApaleoConnectAdaptor(o)
Construct(o) ==
  /\ constructed = "none"
  /\ options' = o
  /\ LET d == Destructure(o) IN
       IF CredentialsMissing(d.client_id, d.client_secret)
       THEN /\ constructed' = "failed"
            /\ UNCHANGED <<closure, tokenPair, tokenStore>>
       ELSE /\ constructed' = "ok"
            /\ closure' = d
            /\ tokenPair' = SuperOptions(d)
            /\ tokenStore' = o.tokenStore
  /\ UNCHANGED <<stored, saveLog, calls, inFlight, exchangeLog, gw>>

\* ------------------------------------------------- token exchange
\* The arguments the closure hands to ApaleoGenerateAccessToken when the
\* driver calls generteAccessToken(token).
ExchangeRequest(token) ==
  [client_secret |-> closure.client_secret,
   client_id |-> closure.client_id,
   redirect_uri |-> closure.redirect_uri,
   refresh |-> closure.refresh_token]

\* The pair the vendor's token endpoint issues on its n-th successful exchange.
IssuedPair(n) ==
  [access_token |-> "at-" \o ToString(n),
   refresh_token |-> "rt-" \o ToString(n + 1)]

Succeeded(log) == SelectSeq(log, LAMBDA e : e.response = "data")

\* What ApaleoGenerateAccessToken can answer: a fresh pair, nothing, or a
\* rejection by the token endpoint (it throws).
TokenEndpointAnswers ==
  {[kind |-> "data", data |-> IssuedPair(Len(Succeeded(exchangeLog)) + 1)],
   [kind |-> "nodata", data |-> NullPair],
   [kind |-> "rejected", data |-> NullPair]}

generteAccessToken_NoCheck(answer) ==
  IF answer.kind = "rejected"
  THEN [threw |-> TRUE, value |-> NullPair]
  ELSE [threw |-> FALSE, value |-> answer.data]

generteAccessToken_KeepsRefresh(answer) ==
  IF answer.kind = "rejected" \/ answer.data = NullPair
  THEN [threw |-> TRUE, value |-> NullPair]
  ELSE [threw |-> FALSE,
        value |-> [answer.data EXCEPT !.refresh_token = closure.refresh_token]]

\* const data = await ApaleoGenerateAccessToken(...);
\* if (!data) throw Error(...); return data
generteAccessToken(answer) ==
  IF answer.kind = "rejected" \/ answer.data = NullPair
  THEN [threw |-> TRUE, value |-> NullPair]
  ELSE [threw |-> FALSE, value |-> answer.data]

\* ---------------------------------------- authenticated request driver
HttpStatuses == {"ok", "unauth", "error"}

RefreshInFlight_Never == FALSE

\* A refresh is already in flight for this driver instance.
RefreshInFlight == inFlight > 0

\* execute(spec): attach the current access token and perform the call.
Execute(c) ==
  /\ constructed = "ok"
  /\ calls[c].pc = "idle"
  /\ calls' = [calls EXCEPT ![c] =
       [pc |-> "req1", attempts |-> 1, bearer |-> tokenPair.access_token,
        lastResp |-> "none", round |-> 0, result |-> "none"]]
  /\ UNCHANGED <<options, constructed, closure, tokenPair, tokenStore, stored,
                 saveLog, inFlight, exchangeLog, gw>>

\* The first attempt's response arrives.
Respond(c, status) ==
  /\ calls[c].pc = "req1"
  /\ IF status = "ok"
     THEN /\ calls' = [calls EXCEPT ![c].pc = "done", ![c].lastResp = status,
                                    ![c].result = "ok"]
          /\ UNCHANGED <<inFlight, exchangeLog>>
     ELSE IF status = "error"
     THEN /\ calls' = [calls EXCEPT ![c].pc = "done", ![c].lastResp = status,
                                    ![c].result = "RequestError"]
          /\ UNCHANGED <<inFlight, exchangeLog>>
     ELSE IF RefreshInFlight
     THEN \* await the shared in-flight exchange
          /\ calls' = [calls EXCEPT ![c].pc = "waiting",
                                    ![c].lastResp = status,
                                    ![c].round = Len(exchangeLog)]
          /\ UNCHANGED <<inFlight, exchangeLog>>
     ELSE \* start the exchange: generteAccessToken(refresh token)
          /\ inFlight' = inFlight + 1
          /\ exchangeLog' = Append(exchangeLog,
               [held |-> tokenPair.refresh_token,
                pairBefore |-> tokenPair,
                storedBefore |-> stored,
                request |-> ExchangeRequest(tokenPair.refresh_token),
                response |-> "pending",
                returned |-> NullPair,
                saved |-> FALSE])
          /\ calls' = [calls EXCEPT ![c].pc = "refreshing",
                                    ![c].lastResp = status,
                                    ![c].round = Len(exchangeLog) + 1]
  /\ UNCHANGED <<options, constructed, closure, tokenPair, tokenStore, stored,
                 saveLog, gw>>

Awaiting(c) == calls[c].pc \in {"waiting", "refreshing"}

\* The exchange settles. On success the in-memory pair is replaced, the pair
\* is handed to the token store (the write may fail) and every awaiting call
\* retries with the new access token; on failure every awaiting call fails.
ExchangeSettle(answer, saveOk) ==
  /\ inFlight > 0
  /\ exchangeLog # <<>>
  /\ Last(exchangeLog).response = "pending"
  /\ LET out == generteAccessToken(answer)
         r == Len(exchangeLog)
     IN
       /\ inFlight' = inFlight - 1
       /\ IF out.threw
          THEN /\ exchangeLog' = [exchangeLog EXCEPT ![r].response = answer.kind]
               /\ calls' = [c \in Calls |->
                    IF Awaiting(c)
                    THEN [calls[c] EXCEPT !.pc = "done",
                                          !.result = "AuthExchangeError"]
                    ELSE calls[c]]
               /\ UNCHANGED <<tokenPair, stored, saveLog>>
          ELSE /\ exchangeLog' = [exchangeLog EXCEPT
                    ![r].response = answer.kind,
                    ![r].returned = answer.data,
                    ![r].saved = tokenStore /\ saveOk]
               /\ tokenPair' = out.value
               /\ IF tokenStore
                  THEN /\ saveLog' = Append(saveLog, out.value)
                       /\ stored' = IF saveOk THEN out.value ELSE stored
                  ELSE UNCHANGED <<stored, saveLog>>
               /\ calls' = [c \in Calls |->
                    IF Awaiting(c)
                    THEN [calls[c] EXCEPT !.pc = "req2", !.attempts = 2,
                                          !.bearer = out.value.access_token]
                    ELSE calls[c]]
  /\ UNCHANGED <<options, constructed, closure, tokenStore, gw>>

RetryOutcome_NoAuthExpired(status) ==
  IF status = "ok" THEN "ok" ELSE "RequestError"

\* The result of the call once the retry's response is in.
RetryOutcome(status) ==
  IF status = "ok" THEN "ok"
  ELSE IF status = "unauth" THEN "AuthExpiredError"
  ELSE "RequestError"

\* The retry's response arrives: the call ends whatever the status.
RespondRetry(c, status) ==
  /\ calls[c].pc = "req2"
  /\ calls' = [calls EXCEPT ![c].pc = "done", ![c].lastResp = status,
                            ![c].result = RetryOutcome(status)]
  /\ UNCHANGED <<options, constructed, closure, tokenPair, tokenStore, stored,
                 saveLog, inFlight, exchangeLog, gw>>

\* ------------------------------------------------------ resource gateway
\* Caller-supplied query-parameter bags: any subset of these keys, set by
\* the caller.
ParamKeys == {"propertyId", "from", "to", "pageSize"}
EmptyParams == [k \in {} |-> ""]
ParamBags == UNION {[S -> {"caller"}] : S \in SUBSET ParamKeys}

HotelIds == {"HOTEL-1", "HOTEL-2"}

\* Rate plans handed to getRatesByRatePlan: with and without rates_range.
RatePlans ==
  {[id |-> "rp-1", rates_range |-> [from |-> "2024-01-01", to |-> "2024-12-31"]],
   [id |-> "rp-2"]}

\* Vendor list elements; a promo code may lack relatedRateplanIds.
VendorItems == {[id |-> "a"], [id |-> "b"]}
VendorPromoCodes ==
  {[code |-> "P1", relatedRateplanIds |-> <<"rp-1">>], [code |-> "P2"]}

SeqsUpTo(S, n) == UNION {[1..k -> S] : k \in 0..n}

\* A vendor list payload: { count, <field>: [...] }.
Payload(field, count, list) ==
  [k \in {"count", field} |-> IF k = "count" THEN count ELSE list]

NoResponse == [kind |-> "none"]

\* What http.get can do: resolve with a vendor payload, or throw.
Responses(field, items) ==
  {[kind |-> "error"]} \cup
  {[kind |-> "data", data |-> Payload(field, n, l)] :
     n \in 0..MaxCount, l \in SeqsUpTo(items, MaxLen)}

\* The mappers of ./utils: one canonical entity per vendor element.
toConnectedHotel(p) == [id |-> p.id, entity |-> "Hotel"]
toConnectedRoomType(ug) == [id |-> ug.id, entity |-> "RoomType"]
toConnectedRatePaln(rpi) == [id |-> rpi.id, entity |-> "RatePlan"]
convertToConnectedRate(r) == [id |-> r.id, entity |-> "Rate"]
toConnectedCancellationPolicy(cp) == [id |-> cp.id, entity |-> "CancellationPolicy"]
toConnectedNoShowPolicy(nsp) == [id |-> nsp.id, entity |-> "NoShowPolicy"]
toConnectedAgeCategory(a) == [id |-> a.id, entity |-> "AgeCategory"]
toConnectedService(s) == [id |-> s.id, entity |-> "Service"]

\* The inline mapper of getPromoCodes.
toPromoCode(pc) ==
  [code |-> pc.code,
   related_rateplan_ids |->
     IF "relatedRateplanIds" \in DOMAIN pc THEN pc.relatedRateplanIds ELSE <<>>]

\* A call may start once the caller's previous call has settled.
GatewayIdle == gw.result.threw # "pending"

\* A list method up to its await of this.http.get(path, { params: query }):
\* the request is issued and the method suspends.
ListCall(method, id, params, path, query) ==
  gw' = [method |-> method, id |-> id, params |-> params,
         requests |-> <<[path |-> path, params |-> query]>>,
         response |-> NoResponse,
         result |-> [threw |-> "pending"]]

getHotels_result(data) ==
  [threw |-> "none",
   data |-> [i \in 1..Len(data.properties) |->
              toConnectedHotel(data.properties[i])],
   count |-> data.count]

getHotels(params) ==
  /\ constructed = "ok"
  /\ GatewayIdle
  /\ ListCall("getHotels", "", params, "/inventory/v1/properties", params)
  /\ UNCHANGED driverVars

\* params: { ...params, propertyId: hotelId }
getRoomsTypes_query(hotelId, params) == Merge(params, [propertyId |-> hotelId])

getRoomsTypes_result(data) ==
  [threw |-> "none",
   data |-> [i \in 1..Len(data.unitGroups) |->
              toConnectedRoomType(data.unitGroups[i])],
   count |-> data.count]

getRoomsTypes(hotelId, params) ==
  /\ constructed = "ok"
  /\ GatewayIdle
  /\ ListCall("getRoomsTypes", hotelId, params, "/inventory/v1/unit-groups",
              getRoomsTypes_query(hotelId, params))
  /\ UNCHANGED driverVars

\* params: { ...params, propertyId: hotelId }
getRatePlansByHotelId_query(hotelId, params) == Merge(params, [propertyId |-> hotelId])

getRatePlansByHotelId_result_Recount(data) ==
  [threw |-> "none",
   data |-> [i \in 1..Len(data.ratePlans) |->
              toConnectedRatePaln(data.ratePlans[i])],
   count |-> Len(data.ratePlans)]

getRatePlansByHotelId_result(data) ==
  [threw |-> "none",
   data |-> [i \in 1..Len(data.ratePlans) |->
              toConnectedRatePaln(data.ratePlans[i])],
   count |-> data.count]

getRatePlansByHotelId(hotelId, params) ==
  /\ constructed = "ok"
  /\ GatewayIdle
  /\ ListCall("getRatePlansByHotelId", hotelId, params, "/rateplan/v1/rate-plans",
              getRatePlansByHotelId_query(hotelId, params))
  /\ UNCHANGED driverVars

\* params: { ...params, propertyId: hotelId }
getCancellationPolicies_query(hotelId, params) == Merge(params, [propertyId |-> hotelId])

getCancellationPolicies_result(data) ==
  [threw |-> "none",
   data |-> [i \in 1..Len(data.cancellationPolicies) |->
              toConnectedCancellationPolicy(data.cancellationPolicies[i])],
   count |-> data.count]

getCancellationPolicies(hotelId, params) ==
  /\ constructed = "ok"
  /\ GatewayIdle
  /\ ListCall("getCancellationPolicies", hotelId, params,
              "/rateplan/v1/cancellation-policies",
              getCancellationPolicies_query(hotelId, params))
  /\ UNCHANGED driverVars

\* params: { ...params, propertyId: propertyId }
getNoShowPolicies_query(propertyId, params) == Merge(params, [propertyId |-> propertyId])

getNoShowPolicies_result(data) ==
  [threw |-> "none",
   data |-> [i \in 1..Len(data.noShowPolicies) |->
              toConnectedNoShowPolicy(data.noShowPolicies[i])],
   count |-> data.count]

getNoShowPolicies(propertyId, params) ==
  /\ constructed = "ok"
  /\ GatewayIdle
  /\ ListCall("getNoShowPolicies", propertyId, params, "/rateplan/v1/no-show-policies",
              getNoShowPolicies_query(propertyId, params))
  /\ UNCHANGED driverVars

\* params: { ...params, propertyId: hotelId }
getAgeCategories_query(hotelId, params) == Merge(params, [propertyId |-> hotelId])

getAgeCategories_result(data) ==
  [threw |-> "none",
   data |-> [i \in 1..Len(data.ageCategories) |->
              toConnectedAgeCategory(data.ageCategories[i])],
   count |-> data.count]

getAgeCategories(hotelId, params) ==
  /\ constructed = "ok"
  /\ GatewayIdle
  /\ ListCall("getAgeCategories", hotelId, params, "/settings/v1/age-categories",
              getAgeCategories_query(hotelId, params))
  /\ UNCHANGED driverVars

\* params: { ...params, propertyId: hotelId }
getServices_query(hotelId, params) == Merge(params, [propertyId |-> hotelId])

getServices_result(data) ==
  [threw |-> "none",
   data |-> [i \in 1..Len(data.services) |->
              toConnectedService(data.services[i])],
   count |-> data.count]

getServices(hotelId, params) ==
  /\ constructed = "ok"
  /\ GatewayIdle
  /\ ListCall("getServices", hotelId, params, "/rateplan/v1/services",
              getServices_query(hotelId, params))
  /\ UNCHANGED driverVars

\* params: { propertyId: hotelId }
getPromoCodes_query(hotelId, params) == [propertyId |-> hotelId]

getPromoCodes_result(data) ==
  [threw |-> "none",
   data |-> [i \in 1..Len(data.promoCodes) |->
              toPromoCode(data.promoCodes[i])],
   count |-> data.count]

getPromoCodes(hotelId, params) ==
  /\ constructed = "ok"
  /\ GatewayIdle
  /\ ListCall("getPromoCodes", hotelId, params,
              "/rateplan/v1/promo-codes/codes",
              getPromoCodes_query(hotelId, params))
  /\ UNCHANGED driverVars

\* ratePlan.rates_range is there to read from.
HasRatesRange(ratePlan) == "rates_range" \in DOMAIN ratePlan

getRatesByRatePlan_query_CallerWins(ratePlan, params) ==
  Merge([from |-> ratePlan.rates_range.from, to |-> ratePlan.rates_range.to],
        params)

\* params: { ...params, from: ratePlan.rates_range.from,
\*           to: ratePlan.rates_range.to }
getRatesByRatePlan_query(ratePlan, params) ==
  Merge(params,
        [from |-> ratePlan.rates_range.from, to |-> ratePlan.rates_range.to])

getRatesByRatePlan_result_Recount(data) ==
  [threw |-> "none",
   data |-> [i \in 1..Len(data.rates) |->
              convertToConnectedRate(data.rates[i])],
   count |-> Len(data.rates)]

getRatesByRatePlan_result(data) ==
  [threw |-> "none",
   data |-> [i \in 1..Len(data.rates) |->
              convertToConnectedRate(data.rates[i])],
   count |-> data.count]

\* Reading rates_range.from of a rate plan without rates_range throws a
\* TypeError while the request's arguments are built: http.get is not called.
getRatesByRatePlan(ratePlan, params) ==
  /\ constructed = "ok"
  /\ GatewayIdle
  /\ IF HasRatesRange(ratePlan)
     THEN ListCall("getRatesByRatePlan", ratePlan.id, params,
                   "/rateplan/v1/rate-plans/" \o ratePlan.id \o "/rates",
                   getRatesByRatePlan_query(ratePlan, params))
     ELSE gw' = [method |-> "getRatesByRatePlan", id |-> ratePlan.id,
                 params |-> params, requests |-> <<>>,
                 response |-> NoResponse, result |-> [threw |-> "TypeError"]]
  /\ UNCHANGED driverVars

\* The field of the vendor payload that holds the list, per method.
ListField(method) ==
  CASE method = "getHotels" -> "properties"
    [] method = "getRoomsTypes" -> "unitGroups"
    [] method = "getRatePlansByHotelId" -> "ratePlans"
    [] method = "getRatesByRatePlan" -> "rates"
    [] method = "getCancellationPolicies" -> "cancellationPolicies"
    [] method = "getNoShowPolicies" -> "noShowPolicies"
    [] method = "getAgeCategories" -> "ageCategories"
    [] method = "getServices" -> "services"
    [] method = "getPromoCodes" -> "promoCodes"
    [] OTHER -> "none"

ItemsOf(method) ==
  IF method = "getPromoCodes" THEN VendorPromoCodes ELSE VendorItems

\* What the suspended method returns once http.get resolved with data.
ResultOf(method, data) ==
  CASE method = "getHotels" -> getHotels_result(data)
    [] method = "getRoomsTypes" -> getRoomsTypes_result(data)
    [] method = "getRatePlansByHotelId" -> getRatePlansByHotelId_result(data)
    [] method = "getRatesByRatePlan" -> getRatesByRatePlan_result(data)
    [] method = "getCancellationPolicies" -> getCancellationPolicies_result(data)
    [] method = "getNoShowPolicies" -> getNoShowPolicies_result(data)
    [] method = "getAgeCategories" -> getAgeCategories_result(data)
    [] method = "getServices" -> getServices_result(data)
    [] method = "getPromoCodes" -> getPromoCodes_result(data)

\* http.get settles: the suspended method converts the payload and returns,
\* or rejects with what http.get threw.
HttpSettle(response) ==
  /\ gw.result.threw = "pending"
  /\ gw' = [gw EXCEPT
       !.response = response,
       !.result = IF response.kind = "data"
                  THEN ResultOf(gw.method, response.data)
                  ELSE [threw |-> "RequestError"]]
  /\ UNCHANGED driverVars

Next ==
  \/ \E o \in OptionValues : Construct(o)
  \/ \E c \in Calls : Execute(c)
  \/ \E c \in Calls, s \in HttpStatuses : Respond(c, s)
  \/ \E a \in TokenEndpointAnswers, ok \in BOOLEAN : ExchangeSettle(a, ok)
  \/ \E c \in Calls, s \in HttpStatuses : RespondRetry(c, s)

Spec == Init /\ [][Next]_vars

\* The resource gateway on a constructed adapter.
GatewayInit ==
  /\ options = [client_id |-> "client", client_secret |-> "client",
                refresh_token |-> "rt-1", access_token |-> "at-0",
                redirect_uri |-> "https://cb", tokenStore |-> FALSE]
  /\ constructed = "ok"
  /\ closure = Destructure(options)
  /\ tokenPair = SuperOptions(closure)
  /\ tokenStore = FALSE
  /\ stored = NullPair
  /\ saveLog = <<>>
  /\ calls = [c \in Calls |-> IdleCall]
  /\ inFlight = 0
  /\ exchangeLog = <<>>
  /\ gw = NoGatewayCall

GatewayNext ==
  \/ \E p \in ParamBags : getHotels(p)
  \/ \E h \in HotelIds, p \in ParamBags : getRoomsTypes(h, p)
  \/ \E h \in HotelIds, p \in ParamBags : getRatePlansByHotelId(h, p)
  \/ \E rp \in RatePlans, p \in ParamBags : getRatesByRatePlan(rp, p)
  \/ \E h \in HotelIds, p \in ParamBags : getCancellationPolicies(h, p)
  \/ \E h \in HotelIds, p \in ParamBags : getNoShowPolicies(h, p)
  \/ \E h \in HotelIds, p \in ParamBags : getAgeCategories(h, p)
  \/ \E h \in HotelIds, p \in ParamBags : getServices(h, p)
  \/ \E h \in HotelIds, p \in ParamBags : getPromoCodes(h, p)
  \/ \E r \in Responses(ListField(gw.method), ItemsOf(gw.method)) :
       HttpSettle(r)

GatewaySpec == GatewayInit /\ [][GatewayNext]_vars

\* ------------------------------------------------------------ claims

RoundOf(c) == exchangeLog[calls[c].round]

\* C1: single-flight refresh. At most one token exchange is in flight; the
\* calls awaiting a refresh all await that one pending exchange, which exactly
\* one of them started; there are no more exchanges than groups of calls that
\* shared one; and every call whose shared exchange succeeded makes exactly one
\* retry and succeeds when the retry is answered ok.
C1_SingleFlight ==
  /\ inFlight <= 1
  /\ Cardinality({c \in Calls : calls[c].pc = "refreshing"}) = inFlight
  /\ Len(exchangeLog) = Cardinality({calls[c].round : c \in Calls} \ {0})
  /\ \A c \in Calls :
       Awaiting(c) =>
         /\ inFlight = 1
         /\ calls[c].round = Len(exchangeLog)
         /\ RoundOf(c).response = "pending"
  /\ \A c \in Calls :
       (calls[c].round > 0 /\ RoundOf(c).response = "data") =>
         /\ calls[c].pc \in {"req2", "done"}
         /\ calls[c].attempts = 2
         /\ (calls[c].pc = "done" /\ calls[c].lastResp = "ok")
              => calls[c].result = "ok"

\* All the calls observed the expiry of the same access token, one exchange
\* was made, and each call succeeded on its one retry.
C1_Witness ==
  /\ NumCalls >= 2
  /\ Len(exchangeLog) = 1
  /\ \A c \in Calls :
       /\ calls[c].pc = "done"
       /\ calls[c].result = "ok"
       /\ calls[c].attempts = 2
       /\ calls[c].round = 1

\* C2: a call makes at most two HTTP attempts; after its retry it never
\* awaits a refresh again, and a retry answered with an authorization failure
\* ends the call with AuthExpiredError.
C2_RetryAtMostOnce ==
  \A c \in Calls :
    /\ calls[c].attempts <= 2
    /\ calls[c].attempts = 2 => calls[c].pc \in {"req2", "done"}
    /\ calls[c].pc = "req2" => (calls[c].attempts = 2 /\ calls[c].round > 0)
    /\ (calls[c].pc = "done" /\ calls[c].attempts = 2
          /\ calls[c].lastResp = "unauth")
         => calls[c].result = "AuthExpiredError"

\* A retry was answered with an authorization failure and the call ended.
C2_Witness ==
  \E c \in Calls :
    /\ calls[c].pc = "done"
    /\ calls[c].attempts = 2
    /\ calls[c].lastResp = "unauth"
    /\ calls[c].result = "AuthExpiredError"
    /\ Len(exchangeLog) = 1

\* C3: a constructor call whose client_id or client_secret is null, undefined
\* or empty fails, and then nothing else has happened: no request, no token
\* exchange, no token pair and no token store.
C3_ConstructionFailsFast ==
  (constructed # "none"
     /\ (Falsy(options.client_id) \/ Falsy(options.client_secret)))
    => /\ constructed = "failed"
       /\ ~tokenStore
       /\ tokenPair = NullPair
       /\ exchangeLog = <<>>
       /\ inFlight = 0
       /\ saveLog = <<>>
       /\ \A c \in Calls : calls[c] = IdleCall
       /\ gw = NoGatewayCall

\* The constructor threw for a null client_secret although a client_id and a
\* token store were given.
C3_Witness ==
  /\ constructed = "failed"
  /\ options.client_id = "client"
  /\ options.client_secret = Null
  /\ options.tokenStore

\* C4: after a successful exchange that returned pair P the in-memory pair is
\* P, TokenStore.save was invoked with exactly the returned pairs, in order,
\* every call that shared the exchange retried with P's access token, and
\* such a call succeeds on an ok answer whether or not the save succeeded.
C4_RefreshReplacesAndPersists ==
  /\ Succeeded(exchangeLog) # <<>>
       => tokenPair = Last(Succeeded(exchangeLog)).returned
  /\ tokenStore
       => saveLog = [i \in 1..Len(Succeeded(exchangeLog)) |->
                       Succeeded(exchangeLog)[i].returned]
  /\ ~tokenStore => saveLog = <<>>
  /\ \A i \in 1..Len(exchangeLog) :
       exchangeLog[i].response = "data"
         => exchangeLog[i].returned # exchangeLog[i].pairBefore
  /\ \A c \in Calls :
       (calls[c].round > 0 /\ RoundOf(c).response = "data") =>
         /\ calls[c].attempts = 2
         /\ calls[c].bearer = RoundOf(c).returned.access_token
         /\ calls[c].bearer # RoundOf(c).pairBefore.access_token
         /\ (calls[c].pc = "done" /\ calls[c].lastResp = "ok")
              => calls[c].result = "ok"

\* Refresh token "rt-1"; the exchange returned { at-1, rt-2 }; the call
\* retried with "at-1" and succeeded; save was invoked with { at-1, rt-2 }
\* and failed.
C4_Witness ==
  /\ tokenStore
  /\ Len(exchangeLog) = 1
  /\ exchangeLog[1].held = "rt-1"
  /\ exchangeLog[1].response = "data"
  /\ ~exchangeLog[1].saved
  /\ stored = NullPair
  /\ saveLog = <<[access_token |-> "at-1", refresh_token |-> "rt-2"]>>
  /\ tokenPair = [access_token |-> "at-1", refresh_token |-> "rt-2"]
  /\ \E c \in Calls :
       /\ calls[c].pc = "done"
       /\ calls[c].round = 1
       /\ calls[c].bearer = "at-1"
       /\ calls[c].result = "ok"

\* C5: when the exchange fails (the endpoint rejects, or the generator gets
\* no data) every call that shared it ends with the exchange error after its
\* single attempt, and the in-memory pair and the stored pair are what they
\* were when the exchange started.
C5_FailedExchangeLeavesTokens ==
  /\ \A c \in Calls :
       (calls[c].round > 0 /\ RoundOf(c).response \in {"nodata", "rejected"}) =>
         /\ calls[c].pc = "done"
         /\ calls[c].result = "AuthExchangeError"
         /\ calls[c].attempts = 1
  /\ (exchangeLog # <<>>
        /\ Last(exchangeLog).response \in {"nodata", "rejected"}) =>
         /\ tokenPair = Last(exchangeLog).pairBefore
         /\ stored = Last(exchangeLog).storedBefore
         /\ Len(saveLog) = IF tokenStore THEN Len(Succeeded(exchangeLog)) ELSE 0

\* Every call shared one exchange that got no data, and every call failed;
\* an earlier state had a token store attached.
C5_Witness ==
  /\ NumCalls >= 2
  /\ tokenStore
  /\ Len(exchangeLog) = 1
  /\ exchangeLog[1].response = "nodata"
  /\ \A c \in Calls :
       /\ calls[c].round = 1
       /\ calls[c].result = "AuthExchangeError"

\* C10: every token exchange is made with the refresh token the TokenPair
\* holds when the exchange starts.
C10_ExchangeUsesHeldRefreshToken ==
  \A i \in 1..Len(exchangeLog) :
    exchangeLog[i].request.refresh = exchangeLog[i].held

\* The canonical entity a method's mapper makes of a vendor element.
CanonicalOf(method, e) ==
  CASE method = "getHotels" -> toConnectedHotel(e)
    [] method = "getRoomsTypes" -> toConnectedRoomType(e)
    [] method = "getRatePlansByHotelId" -> toConnectedRatePaln(e)
    [] method = "getRatesByRatePlan" -> convertToConnectedRate(e)
    [] method = "getCancellationPolicies" -> toConnectedCancellationPolicy(e)
    [] method = "getNoShowPolicies" -> toConnectedNoShowPolicy(e)
    [] method = "getAgeCategories" -> toConnectedAgeCategory(e)
    [] method = "getServices" -> toConnectedService(e)
    [] method = "getPromoCodes" -> toPromoCode(e)

Returned == gw.result.threw = "none"

VendorList == gw.response.data[ListField(gw.method)]

\* C6: the result of every list method has the vendor's count verbatim and,
\* as data, the mapper applied to each vendor element, in the vendor's order.
C6_CountVerbatimDataMapped ==
  Returned =>
    /\ gw.result.count = gw.response.data.count
    /\ Len(gw.result.data) = Len(VendorList)
    /\ \A i \in 1..Len(VendorList) :
         gw.result.data[i] = CanonicalOf(gw.method, VendorList[i])

\* getRatePlansByHotelId("HOTEL-1", {}) against { count: 3, ratePlans: [a, b] }
\* returned { count: 3, data: [canonical a, canonical b] }.
C6_Witness ==
  /\ gw.method = "getRatePlansByHotelId"
  /\ gw.id = "HOTEL-1"
  /\ gw.params = EmptyParams
  /\ Returned
  /\ gw.response.data = Payload("ratePlans", 3, <<[id |-> "a"], [id |-> "b"]>>)
  /\ gw.result.count = 3
  /\ gw.result.data = <<[id |-> "a", entity |-> "RatePlan"],
                        [id |-> "b", entity |-> "RatePlan"]>>

\* C7 as stated: every returned list result has data.length <= count.
C7_LengthAtMostCount ==
  Returned => Len(gw.result.data) <= gw.result.count

\* C7 as amended: data.length <= count holds of the result exactly when the
\* vendor's list is no longer than the count the vendor reported.
C7_LengthAtMostCountIffVendor ==
  Returned =>
    ((Len(gw.result.data) <= gw.result.count)
       <=> (Len(VendorList) <= gw.response.data.count))

\* getRatesByRatePlan returned two rates of a reported total of three.
C7_Witness ==
  /\ gw.method = "getRatesByRatePlan"
  /\ Returned
  /\ Len(VendorList) = 2
  /\ Len(gw.result.data) = 2
  /\ gw.result.count = 3

RatePlanOf(id) == CHOOSE rp \in RatePlans : rp.id = id

\* C8: getRatesByRatePlan of a rate plan without rates_range fails before any
\* request is issued and without any token exchange; with rates_range, the
\* one request's from and to are the rate plan's, whatever the caller passed.
C8_RatesRangePrecondition ==
  gw.method = "getRatesByRatePlan" =>
    IF HasRatesRange(RatePlanOf(gw.id))
    THEN /\ gw.result.threw # "TypeError"
         /\ Len(gw.requests) = 1
         /\ gw.requests[1].params.from = RatePlanOf(gw.id).rates_range.from
         /\ gw.requests[1].params.to = RatePlanOf(gw.id).rates_range.to
         /\ \A k \in DOMAIN gw.params \ {"from", "to"} :
              gw.requests[1].params[k] = gw.params[k]
    ELSE /\ gw.result.threw = "TypeError"
         /\ gw.requests = <<>>
         /\ exchangeLog = <<>>
         /\ inFlight = 0

\* A rate plan without rates_range: the call failed and no request was made,
\* although the caller passed from and to of its own.
C8_Witness ==
  /\ gw.method = "getRatesByRatePlan"
  /\ ~HasRatesRange(RatePlanOf(gw.id))
  /\ {"from", "to"} \subseteq DOMAIN gw.params
  /\ gw.result.threw = "TypeError"
  /\ gw.requests = <<>>

HotelScoped ==
  {"getRoomsTypes", "getRatePlansByHotelId", "getCancellationPolicies",
   "getNoShowPolicies", "getAgeCategories", "getServices", "getPromoCodes"}

\* C9: the query of every list method that takes a hotel identifier holds
\* propertyId set to that identifier and every other caller-supplied
\* parameter.
C9_QueryKeepsCallerParams ==
  (gw.method \in HotelScoped /\ gw.requests # <<>>) =>
    /\ gw.requests[1].params.propertyId = gw.id
    /\ \A k \in DOMAIN gw.params \ {"propertyId"} :
         /\ k \in DOMAIN gw.requests[1].params
         /\ gw.requests[1].params[k] = gw.params[k]

====
